---- MODULE Spec2Model ----
(***************************************************************************)
(* Model of the data-munging code of the keras-io examples:                *)
(*   - the sequence builder of the GRU4Rec sequential-retrieval notebook   *)
(*     (get_movie_sequence_per_user, generate_examples_from_user_sequences)*)
(*   - the tool-call extractor of the function-calling guide               *)
(*     (extract_tool_call).                                                *)
(* Python lists are sequences; Python indices are 0-based and kept as the  *)
(* code computes them, sequences are accessed at index+1.                  *)
(***************************************************************************)
EXTENDS Integers, Sequences, FiniteSets, TLC

\* ------------------------------------------------------------------------
\* Bounds of the explored inputs
\* ------------------------------------------------------------------------
MaxRows == 4
MaxContextLength == 3
MaxSegments == 6

\* Value domains of the input columns: two users, two items, two times
\* (so that ties, repeated items and interleaved users all occur).
Users == {1, 2}
Movies == {10, 20}
Timestamps == {1, 2}
ContextLengths == 2..MaxContextLength

\* ------------------------------------------------------------------------
\* Program constants
\* ------------------------------------------------------------------------
MIN_SEQUENCE_LENGTH == 3

VARIABLES
    MAX_CONTEXT_LENGTH,   \* notebook hyperparameter (10 in the notebook)
    ratings_df,           \* input rows, in file order
    sequences,            \* defaultdict(list): user_id -> list of interactions
    user_order,           \* insertion order of the keys of `sequences`
    pc,                   \* position in the notebook's data pipeline
    row_idx,              \* next row of ratings_df.values (1-based)
    user_idx,             \* next key of `sequences` to visit (1-based)
    label_idx,            \* loop variable of range(1, len(sequence))
    context,              \* local list `context`
    train_examples,       \* locals of generate_examples_from_user_sequence
    test_examples,
    all_train_examples,
    all_test_examples,
    response_text,        \* argument of extract_tool_call
    tool_code,            \* its return value
    tpc,                  \* position of the extractor
    code_string,          \* capture_code_output: the code to run
    globals_dict,         \* names bound in the namespace given to eval/exec
    output,               \* the io.StringIO that receives stdout
    result,               \* local `result`
    tool_result,          \* value returned by capture_code_output
    exc,                  \* exception that ended the run ("none" if none)
    response,             \* try_parse_funccall: the model response
    res,                  \* the list it returns
    call_ids,             \* ids assigned to the calls in this invocation
    invoked,              \* indices of the calls whose tool was invoked
    generated,            \* every id drawn so far, over all invocations
    invocations,          \* number of invocations so far
    fexc,                 \* exception that left try_parse_funccall
    fpc,                  \* position of try_parse_funccall
    loop,                 \* which conversation loop runs: "gemma" or "mistral"
    lpc,                  \* position in the loop
    turn,                 \* Gemma loop: `turn` of range(max_turns)
    conversation_history, \* Gemma loop: list of text pieces
    messages,             \* Mistral loop: list of token sequences
    flight_booked,        \* Mistral loop
    iteration_count,      \* Mistral loop
    generations,          \* number of calls of generate so far
    candidate_model,      \* the candidate tower: embedding of each movie id
    candidate_id,         \* compute_loss: `candidate_id = y`, the label ids
    query_embeddings,     \* compute_loss: y_pred["query_embeddings"]
    labels,               \* compute_loss: local `labels`
    scores,               \* compute_loss: local `scores`
    pre_messages,         \* preprocess: argument `messages`
    sequence_length,      \* preprocess: argument
    token_ids,            \* preprocess: returned "token_ids" (row 0)
    padding_mask,         \* preprocess: returned "padding_mask" (row 0)
    amount,               \* convert: arguments
    currency,
    new_currency,
    converted,            \* convert: what the call does (raises or returns)
    captured,             \* capture_code_output of the convert call
    fn_pc,                \* position of the function under study
    executions,           \* how many times the body of the code ran
    resolved,             \* names the running code has looked up
    cpc                   \* position inside capture_code_output

seqVars == <<MAX_CONTEXT_LENGTH, ratings_df, sequences, user_order, pc,
             row_idx, user_idx, label_idx, context, train_examples,
             test_examples, all_train_examples, all_test_examples>>
toolVars == <<response_text, tool_code, tpc>>
captureVars == <<code_string, globals_dict, output, result, tool_result, exc,
                 executions, resolved, cpc>>
funccallVars == <<response, res, call_ids, invoked, generated, invocations, fexc, fpc>>
loopVars == <<loop, lpc, turn, conversation_history, messages, flight_booked,
              iteration_count, generations>>
fnVars == <<candidate_model, candidate_id, query_embeddings, labels, scores, pre_messages, sequence_length,
            token_ids, padding_mask, amount, currency, new_currency, converted,
            captured, fn_pc>>
restVars == <<captureVars, funccallVars, loopVars, fnVars>>
vars == <<seqVars, toolVars, restVars>>

NONE == [is_none |-> TRUE, value |-> <<>>]
Some(v) == [is_none |-> FALSE, value |-> v]

\* ------------------------------------------------------------------------
\* Helpers
\* ------------------------------------------------------------------------
Max(a, b) == IF a >= b THEN a ELSE b
Min(a, b) == IF a <= b THEN a ELSE b

\* Python slice s[a:b] for 0 <= a, 0 <= b: a fresh list (a copy).
PySlice(s, a, b) == SubSeq(s, a + 1, Min(b, Len(s)))

\* The interaction dict built for row r of ratings_df.  `row` is the
\* identity of the dict object (one dict is created per input row).
\* The rating is carried by the dict but never read again.
Interaction(r) ==
    [movie_id |-> ratings_df[r].movie_id,
     timestamp |-> ratings_df[r].timestamp,
     row |-> r]

\* The padding dict {"movie_id": 0, "timestamp": 0, "rating": 0.0}.
PAD == [movie_id |-> 0, timestamp |-> 0, row |-> 0]

\* list.sort(key=lambda x: x["timestamp"]): Python's sort is stable.
\* Computed as a left-to-right insertion that places each element after
\* every already placed element whose key is <= its own.
InsertByTimestampUnstable(acc, x) ==
    LET p == Cardinality({i \in 1..Len(acc) : acc[i].timestamp < x.timestamp})
    IN  SubSeq(acc, 1, p) \o <<x>> \o SubSeq(acc, p + 1, Len(acc))

InsertByTimestamp(acc, x) ==
    LET p == Cardinality({i \in 1..Len(acc) : acc[i].timestamp <= x.timestamp})
    IN  SubSeq(acc, 1, p) \o <<x>> \o SubSeq(acc, p + 1, Len(acc))

RECURSIVE SortFrom(_, _, _)
SortFrom(s, k, acc) ==
    IF k > Len(s) THEN acc
    ELSE SortFrom(s, k + 1, InsertByTimestamp(acc, s[k]))

SortByTimestamp(s) == SortFrom(s, 1, <<>>)

\* `if len(sequence) < MIN_SEQUENCE_LENGTH: continue`
SkipSequenceLoose(sequence) == Len(sequence) < MIN_SEQUENCE_LENGTH - 1

SkipSequence(sequence) == Len(sequence) < MIN_SEQUENCE_LENGTH

\* `for label_idx in range(1, len(sequence))`: the loop continues
InLabelRangeShort(idx, sequence) == idx < Len(sequence) - 1

InLabelRange(idx, sequence) == idx < Len(sequence)

\* `start_idx = max(0, label_idx - MAX_CONTEXT_LENGTH)`
StartIdxLate(idx) == Max(0, idx - MAX_CONTEXT_LENGTH + 1)

StartIdx(idx) == Max(0, idx - MAX_CONTEXT_LENGTH)

\* `context = sequence[start_idx:label_idx]`
ContextSliceShifted(sequence, idx) == PySlice(sequence, Max(0, StartIdx(idx) - 1), Max(0, idx - 1))

ContextSlice(sequence, idx) == PySlice(sequence, StartIdx(idx), idx)

\* `while len(context) < MAX_CONTEXT_LENGTH`
NeedsPaddingShort(ctx) == Len(ctx) < MAX_CONTEXT_LENGTH - 1

NeedsPadding(ctx) == Len(ctx) < MAX_CONTEXT_LENGTH

\* `context.append({...})`
PadContextLeft(ctx) == <<PAD>> \o ctx

PadContext(ctx) == Append(ctx, PAD)

\* `sequence` after `context.append({...})`: context is the list the slice
\* built, another object than the sequence, which keeps its entries.
SourceAfterAppendShared(sequence) == Append(sequence, PAD)

SourceAfterAppend(sequence) == sequence

\* `if label_idx == len(sequence) - 1` : the example goes to the test list
IsTestExampleNever(idx, sequence) == idx = Len(sequence)

IsTestExample(idx, sequence) == idx = Len(sequence) - 1

\* The example dict.  int() is applied to integer ids and leaves them as
\* they are.  context_row / label_row record which interaction objects the
\* ids were read from (0 for the padding dict).
MakeExampleOffByOne(ctx, sequence, idx) ==
    [context_movie_id |-> [k \in 1..Len(ctx) |-> ctx[k].movie_id],
     label_movie_id |-> sequence[idx].movie_id,
     context_row |-> [k \in 1..Len(ctx) |-> ctx[k].row],
     label_row |-> sequence[idx].row]

MakeExample(ctx, sequence, idx) ==
    [context_movie_id |-> [k \in 1..Len(ctx) |-> ctx[k].movie_id],
     label_movie_id |-> sequence[idx + 1].movie_id,
     context_row |-> [k \in 1..Len(ctx) |-> ctx[k].row],
     label_row |-> sequence[idx + 1].row]

CurrentUser == user_order[user_idx]
CurrentSequence == sequences[CurrentUser]

\* ------------------------------------------------------------------------
\* Inputs
\* ------------------------------------------------------------------------
Rows == [user_id : Users, movie_id : Movies, timestamp : Timestamps]

GeneralInputs == UNION {[1..n -> Rows] : n \in 0..MaxRows}

\* The rows of the worked example: one user, items 10,20,30,40 at
\* increasing timestamps, in any file order.
ScenarioRows == {[user_id |-> 1, movie_id |-> 10 * k, timestamp |-> k] : k \in 1..4}

ScenarioInputs == {f \in [1..4 -> ScenarioRows] : \A i, j \in 1..4 : i # j => f[i] # f[j]}

\* Python values that capture_code_output handles: None, a float, a str
\* (a str is a sequence of text tokens).  UNSET marks a missing value.
PyNone == [type |-> "NoneType", val |-> <<>>]
PyFloat(x) == [type |-> "float", val |-> <<x>>]
PyStr(tokens) == [type |-> "str", val |-> tokens]
UNSET == [type |-> "unset", val |-> <<>>]

NoCode == [form |-> "invalid", names |-> {}, prints |-> <<>>, raises |-> "none",
           value |-> PyNone]

CaptureIdle ==
    /\ code_string = NoCode
    /\ globals_dict = {}
    /\ output = <<>>
    /\ result = UNSET
    /\ tool_result = UNSET
    /\ exc = "none"
    /\ executions = 0
    /\ resolved = {}
    /\ cpc = "idle"

\* A model response as try_parse_funccall sees it: whether the
\* [TOOL_CALLS] token occurs, and what raw_decode makes of the text after
\* it.
NoResponse == [marker |-> FALSE, kind |-> "invalid", items |-> <<>>]

FunccallIdle ==
    /\ response = NoResponse
    /\ res = <<>>
    /\ call_ids = <<>>
    /\ invoked = <<>>
    /\ generated = <<>>
    /\ invocations = 0
    /\ fexc = "none"
    /\ fpc = "idle"

LoopIdle ==
    /\ loop = "none"
    /\ lpc = "idle"
    /\ turn = 0
    /\ conversation_history = <<>>
    /\ messages = <<>>
    /\ flight_booked = FALSE
    /\ iteration_count = 0
    /\ generations = 0

\* A currency argument of convert: whether it is a str, and for a str its
\* code, whether it is written in lower case and whether blanks surround
\* it.
NoCurrency == [is_str |-> FALSE, code |-> "USD", lower |-> FALSE, padded |-> FALSE]

\* An amount argument: whether it is a number, and its value.
NoAmount == [is_num |-> FALSE, n |-> 0]

\* The outcome of a call: the exception raised ("none" if none) or the
\* value returned, a fraction num/den.
NoOutcome == [raises |-> "unset", num |-> 0, den |-> 1]

FnIdle ==
    /\ candidate_model = <<>>
    /\ candidate_id = <<>>
    /\ query_embeddings = <<>>
    /\ labels = <<>>
    /\ scores = <<>>
    /\ pre_messages = <<>>
    /\ sequence_length = 0
    /\ token_ids = <<>>
    /\ padding_mask = <<>>
    /\ amount = NoAmount
    /\ currency = NoCurrency
    /\ new_currency = NoCurrency
    /\ converted = NoOutcome
    /\ captured = UNSET
    /\ fn_pc = "idle"

RestIdle == CaptureIdle /\ FunccallIdle /\ LoopIdle /\ FnIdle

ToolIdle ==
    /\ response_text = <<>>
    /\ tool_code = NONE
    /\ tpc = "idle"

SeqIdle ==
    /\ MAX_CONTEXT_LENGTH = 0
    /\ ratings_df = <<>>
    /\ sequences = [u \in Users |-> <<>>]
    /\ user_order = <<>>
    /\ pc = "idle"
    /\ row_idx = 1
    /\ user_idx = 1
    /\ label_idx = 0
    /\ context = <<>>
    /\ train_examples = <<>>
    /\ test_examples = <<>>
    /\ all_train_examples = <<>>
    /\ all_test_examples = <<>>

Init ==
    /\ \/ /\ ratings_df \in GeneralInputs
          /\ MAX_CONTEXT_LENGTH \in ContextLengths
       \/ /\ ratings_df \in ScenarioInputs
          /\ MAX_CONTEXT_LENGTH = 3
    /\ sequences = [u \in Users |-> <<>>]
    /\ user_order = <<>>
    /\ pc = "group"
    /\ row_idx = 1
    /\ user_idx = 1
    /\ label_idx = 0
    /\ context = <<>>
    /\ train_examples = <<>>
    /\ test_examples = <<>>
    /\ all_train_examples = <<>>
    /\ all_test_examples = <<>>
    /\ ToolIdle
    /\ RestIdle

\* ------------------------------------------------------------------------
\* get_movie_sequence_per_user
\* ------------------------------------------------------------------------
\* One iteration of `for user_id, movie_id, rating, timestamp in
\* ratings_df.values`: sequences[user_id].append({...}).
GroupRow ==
    /\ pc = "group"
    /\ row_idx <= Len(ratings_df)
    /\ LET u == ratings_df[row_idx].user_id IN
         /\ sequences' = [sequences EXCEPT ![u] = Append(@, Interaction(row_idx))]
         /\ user_order' = IF \E k \in 1..Len(user_order) : user_order[k] = u
                          THEN user_order
                          ELSE Append(user_order, u)
    /\ row_idx' = row_idx + 1
    /\ UNCHANGED <<MAX_CONTEXT_LENGTH, ratings_df, pc, user_idx, label_idx,
                   context, train_examples, test_examples,
                   all_train_examples, all_test_examples, toolVars, restVars>>

\* The first loop is exhausted; the sorting loop starts.
EndGroup ==
    /\ pc = "group"
    /\ row_idx > Len(ratings_df)
    /\ pc' = "sort"
    /\ user_idx' = 1
    /\ UNCHANGED <<MAX_CONTEXT_LENGTH, ratings_df, sequences, user_order,
                   row_idx, label_idx, context, train_examples, test_examples,
                   all_train_examples, all_test_examples, toolVars, restVars>>

\* One iteration of `for user_id, context in sequences.items()`:
\* context.sort(key=timestamp); sequences[user_id] = context.
SortUser ==
    /\ pc = "sort"
    /\ user_idx <= Len(user_order)
    /\ sequences' = [sequences EXCEPT ![CurrentUser] = SortByTimestamp(@)]
    /\ user_idx' = user_idx + 1
    /\ UNCHANGED <<MAX_CONTEXT_LENGTH, ratings_df, user_order, pc, row_idx,
                   label_idx, context, train_examples, test_examples,
                   all_train_examples, all_test_examples, toolVars, restVars>>

\* `return sequences`, then generate_examples_from_user_sequences(sequences)
\* starts with two empty result lists.
EndSort ==
    /\ pc = "sort"
    /\ user_idx > Len(user_order)
    /\ pc' = "users"
    /\ user_idx' = 1
    /\ all_train_examples' = <<>>
    /\ all_test_examples' = <<>>
    /\ UNCHANGED <<MAX_CONTEXT_LENGTH, ratings_df, sequences, user_order,
                   row_idx, label_idx, context, train_examples, test_examples,
                   toolVars, restVars>>

\* ------------------------------------------------------------------------
\* generate_examples_from_user_sequences
\* ------------------------------------------------------------------------
\* `for sequence in sequences.values()` with a too short sequence: continue.
SkipUser ==
    /\ pc = "users"
    /\ user_idx <= Len(user_order)
    /\ SkipSequence(CurrentSequence)
    /\ user_idx' = user_idx + 1
    /\ UNCHANGED <<MAX_CONTEXT_LENGTH, ratings_df, sequences, user_order, pc,
                   row_idx, label_idx, context, train_examples, test_examples,
                   all_train_examples, all_test_examples, toolVars, restVars>>

\* The call generate_examples_from_user_sequence(sequence) is entered.
EnterUser ==
    /\ pc = "users"
    /\ user_idx <= Len(user_order)
    /\ ~SkipSequence(CurrentSequence)
    /\ train_examples' = <<>>
    /\ test_examples' = <<>>
    /\ label_idx' = 1
    /\ pc' = "loop"
    /\ UNCHANGED <<MAX_CONTEXT_LENGTH, ratings_df, sequences, user_order,
                   row_idx, user_idx, context, all_train_examples,
                   all_test_examples, toolVars, restVars>>

\* Loop head with another label index: start_idx and the context slice.
SliceContext ==
    /\ pc = "loop"
    /\ InLabelRange(label_idx, CurrentSequence)
    /\ context' = ContextSlice(CurrentSequence, label_idx)
    /\ pc' = "pad"
    /\ UNCHANGED <<MAX_CONTEXT_LENGTH, ratings_df, sequences, user_order,
                   row_idx, user_idx, label_idx, train_examples, test_examples,
                   all_train_examples, all_test_examples, toolVars, restVars>>

\* One iteration of the padding loop.
PadStep ==
    /\ pc = "pad"
    /\ NeedsPadding(context)
    /\ context' = PadContext(context)
    /\ sequences' = [sequences EXCEPT ![CurrentUser] = SourceAfterAppend(@)]
    /\ UNCHANGED <<MAX_CONTEXT_LENGTH, ratings_df, user_order, pc,
                   row_idx, user_idx, label_idx, train_examples, test_examples,
                   all_train_examples, all_test_examples, toolVars, restVars>>

\* The padding loop is over: the example is built and appended to the test
\* list (last label) or to the train list; the for loop advances.
EmitExample ==
    /\ pc = "pad"
    /\ ~NeedsPadding(context)
    /\ LET example == MakeExample(context, CurrentSequence, label_idx) IN
         IF IsTestExample(label_idx, CurrentSequence)
         THEN /\ test_examples' = Append(test_examples, example)
              /\ UNCHANGED train_examples
         ELSE /\ train_examples' = Append(train_examples, example)
              /\ UNCHANGED test_examples
    /\ label_idx' = label_idx + 1
    /\ pc' = "loop"
    /\ UNCHANGED <<MAX_CONTEXT_LENGTH, ratings_df, sequences, user_order,
                   row_idx, user_idx, context, all_train_examples,
                   all_test_examples, toolVars, restVars>>

\* The for loop is exhausted: return train_examples, test_examples; the
\* caller extends its two lists and moves to the next user.
ReturnUser ==
    /\ pc = "loop"
    /\ ~InLabelRange(label_idx, CurrentSequence)
    /\ all_train_examples' = all_train_examples \o train_examples
    /\ all_test_examples' = all_test_examples \o test_examples
    /\ user_idx' = user_idx + 1
    /\ pc' = "users"
    /\ UNCHANGED <<MAX_CONTEXT_LENGTH, ratings_df, sequences, user_order,
                   row_idx, label_idx, context, train_examples, test_examples,
                   toolVars, restVars>>

\* `return all_train_examples, all_test_examples`
Finish ==
    /\ pc = "users"
    /\ user_idx > Len(user_order)
    /\ pc' = "done"
    /\ UNCHANGED <<MAX_CONTEXT_LENGTH, ratings_df, sequences, user_order,
                   row_idx, user_idx, label_idx, context, train_examples,
                   test_examples, all_train_examples, all_test_examples,
                   toolVars, restVars>>

Next ==
    \/ GroupRow
    \/ EndGroup
    \/ SortUser
    \/ EndSort
    \/ SkipUser
    \/ EnterUser
    \/ SliceContext
    \/ PadStep
    \/ EmitExample
    \/ ReturnUser
    \/ Finish

Spec == Init /\ [][Next]_vars

\* ========================================================================
\* Properties of the sequence builder
\* ========================================================================
Range(s) == {s[k] : k \in 1..Len(s)}

\* Rows of the input that belong to user u.
RowsOfUser(u) == {r \in 1..Len(ratings_df) : ratings_df[r].user_id = u}

\* Examples of a result list whose label was read from an interaction of u.
ExamplesOfUser(list, u) ==
    SelectSeq(list, LAMBDA e : ratings_df[e.label_row].user_id = u)

\* Every example built so far, returned or still local.
AllExamples ==
    Range(all_train_examples) \cup Range(all_test_examples)
        \cup Range(train_examples) \cup Range(test_examples)

TrainSoFar == Range(all_train_examples) \cup Range(train_examples)

\* The non-sentinel entries of a context, in context order.
RealPart(ctx) == SelectSeq(ctx, LAMBDA m : m # 0)

MovieIds(s) == [k \in 1..Len(s) |-> s[k].movie_id]
RowIds(s) == [k \in 1..Len(s) |-> s[k].row]

\* Position (1-based) in u's sequence of the interaction read from row r.
PositionOf(u, r) == CHOOSE k \in 1..Len(sequences[u]) : sequences[u][k].row = r

KeptUsers == {u \in Users : Len(sequences[u]) >= MIN_SEQUENCE_LENGTH}

Sorted == pc \notin {"group", "sort", "idle"}
Generated == pc = "done"

\* The two fields the notebook's example dict has.
Visible(e) ==
    [context_movie_id |-> e.context_movie_id, label_movie_id |-> e.label_movie_id]
VisibleList(list) == [k \in 1..Len(list) |-> Visible(list[k])]

\* C1: a user with n >= MIN_SEQUENCE_LENGTH interactions gets exactly n-1
\* examples: one test example, labelled with the final interaction, and
\* n-2 >= 1 train examples.
C1_ExampleCounts ==
    Generated =>
        \A u \in KeptUsers :
            LET n == Len(sequences[u])
                test == ExamplesOfUser(all_test_examples, u)
                train == ExamplesOfUser(all_train_examples, u)
            IN  /\ Len(test) = 1
                /\ test[1].label_row = sequences[u][n].row
                /\ Len(train) = n - 2
                /\ Len(train) >= 1
                /\ Len(train) + Len(test) = n - 1

C1_Witness ==
    /\ Generated
    /\ \E u \in Users :
        /\ Len(sequences[u]) = MIN_SEQUENCE_LENGTH
        /\ Len(ExamplesOfUser(all_train_examples, u)) = 1
        /\ Len(ExamplesOfUser(all_test_examples, u)) = 1

\* C2: every example, train or test, has a context of exactly
\* MAX_CONTEXT_LENGTH entries.
C2_ContextLength ==
    \A e \in AllExamples : Len(e.context_movie_id) = MAX_CONTEXT_LENGTH

C2_Witness ==
    /\ Generated
    /\ \E e \in Range(all_train_examples) : \E k \in 1..Len(e.context_movie_id) : e.context_movie_id[k] = 0
    /\ \E e \in Range(all_test_examples) :
        /\ \A k \in 1..Len(e.context_movie_id) : e.context_movie_id[k] # 0
        /\ PositionOf(ratings_df[e.label_row].user_id, e.label_row) - 1 > MAX_CONTEXT_LENGTH

\* C3 as stated: a context with sentinels is left-padded, every sentinel
\* before every real id, the most recent interaction in the last position.
C3_LeftPadded ==
    \A e \in AllExamples :
        LET ctx == e.context_movie_id IN
        (\E k \in 1..Len(ctx) : ctx[k] = 0) =>
            /\ \A i, j \in 1..Len(ctx) : (ctx[i] = 0 /\ ctx[j] # 0) => i < j
            /\ ctx[Len(ctx)] # 0

\* C3 amended: a context whose history h is shorter than MAX_CONTEXT_LENGTH
\* is right-padded: the h real ids come first, oldest first, the most
\* recent interaction is at position h and every later position holds 0.
C3_RightPadded ==
    Sorted =>
        \A e \in AllExamples :
            LET ctx == e.context_movie_id
                u == ratings_df[e.label_row].user_id
                h == PositionOf(u, e.label_row) - 1
            IN  h < MAX_CONTEXT_LENGTH =>
                    /\ \A i, j \in 1..Len(ctx) : (ctx[i] # 0 /\ ctx[j] = 0) => i < j
                    /\ \A k \in 1..Len(ctx) : (ctx[k] = 0) <=> (k > h)
                    /\ e.context_row[h] = sequences[u][h].row
                    /\ ctx[Len(ctx)] = 0

C3_Witness ==
    /\ Generated
    /\ \E e \in Range(all_train_examples) :
        /\ e.context_movie_id[1] # 0
        /\ e.context_movie_id[2] # 0
        /\ e.context_movie_id[Len(e.context_movie_id)] = 0

\* C4: for every split point i of a kept user there is exactly one
\* example; its label is the item of interaction i and the real part of
\* its context is interactions max(0, i-MAX_CONTEXT_LENGTH)..i-1 in order.
C4_WindowAndLabel ==
    Generated =>
        \A u \in KeptUsers :
            \A i \in 1..(Len(sequences[u]) - 1) :
                LET seq == sequences[u]
                    lo == IF i - MAX_CONTEXT_LENGTH > 0 THEN i - MAX_CONTEXT_LENGTH ELSE 0
                    len == i - lo
                    all == all_train_examples \o all_test_examples
                    hits == {k \in 1..Len(all) : all[k].label_row = seq[i + 1].row}
                IN  /\ Cardinality(hits) = 1
                    /\ \A k \in hits :
                        /\ all[k].label_movie_id = seq[i + 1].movie_id
                        /\ RealPart(all[k].context_movie_id)
                             = [m \in 1..len |-> seq[lo + m].movie_id]
                        /\ RealPart(all[k].context_row)
                             = [m \in 1..len |-> seq[lo + m].row]
                        /\ len = (IF i < MAX_CONTEXT_LENGTH THEN i ELSE MAX_CONTEXT_LENGTH)

C4_Witness ==
    /\ Generated
    /\ \E u \in KeptUsers : Len(sequences[u]) - 1 > MAX_CONTEXT_LENGTH
    /\ Len(all_test_examples) = 1
    /\ all_test_examples[1].context_row[1] # sequences[ratings_df[all_test_examples[1].label_row].user_id][1].row

\* C5: the example labelled with a kept user's last interaction is a test
\* example and never a train example, and that interaction occurs in no
\* train example, neither as label nor in a context.
C5_NoLeakage ==
    Sorted =>
        \A u \in KeptUsers :
            LET last == sequences[u][Len(sequences[u])].row IN
            /\ \A e \in TrainSoFar :
                /\ e.label_row # last
                /\ \A k \in 1..Len(e.context_row) : e.context_row[k] # last
            /\ Generated => \E e \in Range(all_test_examples) : e.label_row = last

C5_Witness ==
    /\ Generated
    /\ \E u \in KeptUsers :
        LET lastMovie == sequences[u][Len(sequences[u])].movie_id IN
        \E e \in Range(ExamplesOfUser(all_train_examples, u)) :
            \/ e.label_movie_id = lastMovie
            \/ \E k \in 1..Len(e.context_movie_id) : e.context_movie_id[k] = lastMovie

\* C6: a user with fewer than MIN_SEQUENCE_LENGTH interactions (none or
\* one included) contributes nothing to the train and test sets.
C6_ShortUsersDropped ==
    \A u \in Users :
        Cardinality(RowsOfUser(u)) < MIN_SEQUENCE_LENGTH =>
            \A e \in AllExamples :
                /\ e.label_row \notin RowsOfUser(u)
                /\ \A k \in 1..Len(e.context_row) : e.context_row[k] \notin RowsOfUser(u)

C6_Witness ==
    /\ Generated
    /\ \E u \in Users :
        /\ Cardinality(RowsOfUser(u)) > 0
        /\ Cardinality(RowsOfUser(u)) < MIN_SEQUENCE_LENGTH
    /\ Len(all_test_examples) = 1
    /\ user_order[1] \notin KeptUsers

\* C7: the real entries of a context followed by the label are a
\* contiguous run of the user's sorted item sequence.
C7_RoundTrip ==
    Sorted =>
        \A e \in AllExamples :
            LET ids == MovieIds(sequences[ratings_df[e.label_row].user_id])
                w == RealPart(e.context_movie_id) \o <<e.label_movie_id>>
            IN  \E k \in 1..(Len(ids) - Len(w) + 1) :
                    SubSeq(ids, k, k + Len(w) - 1) = w

C7_Witness ==
    /\ Generated
    /\ \E e \in Range(all_train_examples) :
        /\ Len(RealPart(e.context_movie_id)) = 2
        /\ Len(e.context_movie_id) = 3
        /\ e.label_movie_id # e.context_movie_id[2]

\* The worked scenario: one user, items 10,20,30,40 at increasing
\* timestamps, MAX_CONTEXT_LENGTH = 3, the pipeline has finished.
ScenarioDone ==
    /\ Generated
    /\ ratings_df \in ScenarioInputs
    /\ MAX_CONTEXT_LENGTH = 3

\* C8 as stated: train is exactly (context=[0,10,20], label=30) and test
\* is exactly (context=[10,20,30], label=40).
C8_ScenarioAsStated ==
    ScenarioDone =>
        /\ VisibleList(all_train_examples)
             = <<[context_movie_id |-> <<0, 10, 20>>, label_movie_id |-> 30]>>
        /\ VisibleList(all_test_examples)
             = <<[context_movie_id |-> <<10, 20, 30>>, label_movie_id |-> 40]>>

\* C8 amended: train is (context=[10,0,0], label=20) then
\* (context=[10,20,0], label=30); test is (context=[10,20,30], label=40).
C8_Scenario ==
    ScenarioDone =>
        /\ VisibleList(all_train_examples)
             = << [context_movie_id |-> <<10, 0, 0>>, label_movie_id |-> 20],
                  [context_movie_id |-> <<10, 20, 0>>, label_movie_id |-> 30] >>
        /\ VisibleList(all_test_examples)
             = <<[context_movie_id |-> <<10, 20, 30>>, label_movie_id |-> 40]>>

C8_Witness ==
    /\ ScenarioDone
    /\ ratings_df[1].movie_id = 40
    /\ Len(all_test_examples) = 1

\* C9: after get_movie_sequence_per_user every user's sequence holds
\* exactly that user's interactions, each once, by ascending timestamp,
\* equal timestamps in input order.
C9_StableSortedSequences ==
    Sorted =>
        \A u \in Users :
            LET s == sequences[u] IN
            /\ Range(RowIds(s)) = RowsOfUser(u)
            /\ Len(s) = Cardinality(RowsOfUser(u))
            /\ \A k \in 1..Len(s) :
                /\ s[k].movie_id = ratings_df[s[k].row].movie_id
                /\ s[k].timestamp = ratings_df[s[k].row].timestamp
            /\ \A j, k \in 1..Len(s) :
                j < k => \/ s[j].timestamp < s[k].timestamp
                         \/ /\ s[j].timestamp = s[k].timestamp
                            /\ s[j].row < s[k].row

C9_Witness ==
    /\ pc = "users"
    /\ \E u \in Users :
        LET s == sequences[u] IN
        /\ Len(s) >= 3
        /\ \E j \in 1..(Len(s) - 1) : s[j].timestamp = s[j + 1].timestamp
        /\ \E j \in 1..(Len(s) - 1) : s[j].row > s[j + 1].row

\* ------------------------------------------------------------------------
\* extract_tool_call
\* ------------------------------------------------------------------------
\* Text is a sequence of tokens.  FENCE stands for three backticks (the
\* token is spelled out because a string here cannot hold a backtick),
\* TAG is the word
\* tool_code, NL a newline, SP a blank; the other tokens hold neither
\* whitespace nor backticks.
FENCE == "FENCE"
TAG == "tool_code"
NL == "\n"
SP == " "
CALL_PAYLOAD == <<"print(", "f(1,2)", ")">>

\* \s of the pattern, and the characters removed by str.strip()
IsSpace(t) == t \in {NL, SP}

OpensAtAnyFence(text, p) ==
    /\ p + 1 <= Len(text)
    /\ text[p] = FENCE

\* The literal "```tool_code" of the pattern matches at position p.
OpensAt(text, p) ==
    /\ p + 1 <= Len(text)
    /\ text[p] = FENCE
    /\ text[p + 1] = TAG

\* Positions e >= q where the tail "\n```" of the pattern matches.
ClosePositions(text, q) ==
    {e \in q..(Len(text) - 1) : text[e] = NL /\ text[e + 1] = FENCE}

\* Lengths k that "\s*" can take after the tag at p so that the rest of
\* the pattern, "\n(.*?)\n```", still matches: k whitespace tokens, then
\* a newline, then (re.DOTALL) anything up to a closing "\n```".
SpaceLengths(text, p) ==
    {k \in 0..(Len(text) - p - 1) :
        /\ \A i \in (p + 2)..(p + 1 + k) : IsSpace(text[i])
        /\ p + 2 + k <= Len(text)
        /\ text[p + 2 + k] = NL
        /\ ClosePositions(text, p + 3 + k) # {}}

SetMax(S) == CHOOSE x \in S : \A y \in S : y <= x
SetMin(S) == CHOOSE x \in S : \A y \in S : x <= y

\* The pattern matches starting at p.
MatchesAt(text, p) == OpensAt(text, p) /\ SpaceLengths(text, p) # {}

\* match.group(1) for the match starting at p: "\s*" is greedy (longest
\* k first), "(.*?)" is lazy (nearest closing fence first).
GroupAtGreedy(text, p) ==
    LET k == SetMax(SpaceLengths(text, p))
        q == p + 3 + k
        e == SetMax(ClosePositions(text, q))
    IN  SubSeq(text, q, e - 1)

GroupAt(text, p) ==
    LET k == SetMax(SpaceLengths(text, p))
        q == p + 3 + k
        e == SetMin(ClosePositions(text, q))
    IN  SubSeq(text, q, e - 1)

\* str.strip(): leading and trailing whitespace removed.
StripLeftOnly(s) ==
    LET keep == {i \in 1..Len(s) : ~IsSpace(s[i])}
    IN  IF keep = {} THEN <<>> ELSE SubSeq(s, SetMin(keep), Len(s))

Strip(s) ==
    LET keep == {i \in 1..Len(s) : ~IsSpace(s[i])}
    IN  IF keep = {} THEN <<>> ELSE SubSeq(s, SetMin(keep), SetMax(keep))

\* re.search(pattern, response_text, re.DOTALL): the leftmost match;
\* `return match.group(1).strip()` if there is one, else `return None`.
extract_tool_call(text) ==
    LET starts == {p \in 1..Len(text) : MatchesAt(text, p)}
    IN  IF starts = {} THEN NONE
        ELSE Some(Strip(GroupAt(text, SetMin(starts))))

\* Generated texts: up to MaxSegments pieces of markup and content.
Segments ==
    {<<FENCE, TAG>>, <<NL>>, <<SP>>, <<FENCE>>, CALL_PAYLOAD, <<"x">>}

RECURSIVE Flatten(_)
Flatten(ss) == IF ss = <<>> THEN <<>> ELSE Head(ss) \o Flatten(Tail(ss))

Texts == {Flatten(ss) : ss \in UNION {[1..n -> Segments] : n \in 0..MaxSegments}}

InitExtract ==
    /\ response_text \in Texts
    /\ tool_code = NONE
    /\ tpc = "call"
    /\ SeqIdle
    /\ RestIdle

\* tool_code = extract_tool_call(response)
ExtractToolCall ==
    /\ tpc = "call"
    /\ tool_code' = extract_tool_call(response_text)
    /\ tpc' = "returned"
    /\ UNCHANGED <<response_text, seqVars, restVars>>

NextExtract == ExtractToolCall

SpecExtract == InitExtract /\ [][NextExtract]_vars

\* ========================================================================
\* Properties of the tool-call extractor
\* ========================================================================
\* The text holds exactly one fenced block (two fences in all): an
\* opening fence with the tag, whitespace with a newline, the payload
\* print(f(1,2)), optional whitespace, a newline and the closing fence.
HasOnePrintBlock(text) ==
    LET fences == {p \in 1..Len(text) : text[p] = FENCE} IN
    /\ Cardinality(fences) = 2
    /\ LET a == SetMin(fences)
           b == SetMax(fences)
       IN  /\ text[a + 1] = TAG
           /\ text[b - 1] = "\n"
           /\ \E i \in (a + 2)..(b - 4) :
                /\ SubSeq(text, i, i + 2) = <<"print(", "f(1,2)", ")">>
                /\ \A j \in (a + 2)..(i - 1) : text[j] \in {"\n", " "}
                /\ \E j \in (a + 2)..(i - 1) : text[j] = "\n"
                /\ \A j \in (i + 3)..(b - 2) : text[j] \in {"\n", " "}

\* C10 as stated: for a text with exactly one block whose payload is
\* print(f(1,2)) the extractor returns f(1,2).
C10_ReturnsInnerCall ==
    (tpc = "returned" /\ HasOnePrintBlock(response_text)) =>
        tool_code = Some(<<"f(1,2)">>)

\* C10 amended: for such a text the extractor returns the whole payload
\* print(f(1,2)), the print wrapper included, without the surrounding
\* whitespace.
C10_ReturnsPayload ==
    (tpc = "returned" /\ HasOnePrintBlock(response_text)) =>
        tool_code = Some(<<"print(", "f(1,2)", ")">>)

C10_Witness ==
    /\ tpc = "returned"
    /\ HasOnePrintBlock(response_text)
    /\ \E i \in 1..(Len(response_text) - 1) :
        response_text[i] = ")" /\ response_text[i + 1] = " "
    /\ ~tool_code.is_none


\* A complete fenced block in the wide sense: an opening fence with the
\* tag and, somewhere after it, a fence at the start of a later line.
HasCompleteBlock(text) ==
    \E a \in 1..Len(text) :
        /\ a + 1 <= Len(text)
        /\ text[a] = "FENCE"
        /\ text[a + 1] = "tool_code"
        /\ \E e \in (a + 2)..(Len(text) - 1) : text[e] = "\n" /\ text[e + 1] = "FENCE"

\* A block the pattern accepts: after the tag only whitespace up to a
\* newline at n, and a fence at the start of a line after position n (so a
\* payload line, possibly empty, lies between the two).
HasWellFormedBlock(text) ==
    \E a \in 1..Len(text) :
        /\ a + 1 <= Len(text)
        /\ text[a] = "FENCE"
        /\ text[a + 1] = "tool_code"
        /\ \E n \in (a + 2)..Len(text) :
            /\ text[n] = "\n"
            /\ \A j \in (a + 2)..n : text[j] \in {"\n", " "}
            /\ \E e \in (n + 1)..(Len(text) - 1) : text[e] = "\n" /\ text[e + 1] = "FENCE"

\* C11 as stated: the extractor returns None exactly for the texts without
\* a complete fenced block, a non-None value for every text with one.
C11_NoneIffNoCompleteBlock ==
    tpc = "returned" => (tool_code.is_none <=> ~HasCompleteBlock(response_text))

\* C11 amended: None for every text without a complete block; a non-None
\* value exactly when a block is present whose tag is followed by nothing
\* but whitespace up to a newline and whose closing fence starts a line
\* after that newline.
C11_NoneIffNoWellFormedBlock ==
    tpc = "returned" =>
        /\ ~HasCompleteBlock(response_text) => tool_code.is_none
        /\ tool_code.is_none <=> ~HasWellFormedBlock(response_text)

C11_Witness ==
    /\ tpc = "returned"
    /\ tool_code.is_none
    /\ HasCompleteBlock(response_text)
    /\ \E p \in 1..(Len(response_text) - 1) :
        response_text[p] = "tool_code" /\ response_text[p + 1] = "x"


\* ------------------------------------------------------------------------
\* capture_code_output
\* ------------------------------------------------------------------------
\* A code string is described by what Python does with it:
\*   form    how it compiles: as an expression (eval accepts it), only as
\*           statements (eval raises SyntaxError, exec accepts it), or not
\*           at all;
\*   names   the names its body looks up when it runs;
\*   prints  what its body writes to stdout;
\*   raises  the exception its body raises after that, "none" if none;
\*   value   the value of the expression when nothing is raised.

\* Subclasses of Exception, and classes that derive from BaseException only.
ExceptionClasses ==
    {"SyntaxError", "NameError", "ValueError", "NotImplementedError", "TypeError"}
ExitClasses == {"SystemExit", "KeyboardInterrupt"}

\* `except Exception as e`
IsExceptionNarrow(e) == e = "ValueError"

IsException(e) == e \in ExceptionClasses

\* `local_vars = {"convert": convert}`: the namespace handed to
\* capture_code_output as globals_dict.
LocalVarsModule == {"convert", "gemma"}

LocalVars == {"convert"}

\* eval() and exec() add __builtins__ to a globals dict that lacks it, so
\* the builtin names resolve as well.
Builtins == {"print", "__import__"}

Resolvable(name, globals) == name \in globals \cup Builtins

\* f"Error during code execution: {e}"
ErrorStringBare(e) == PyStr(<<e>>)

ErrorString(e) == PyStr(<<"Error during code execution: ", e>>)

\* One run of the body of the code in the given namespace.
RunCode(code, globals) ==
    IF \E n \in code.names : ~Resolvable(n, globals)
    THEN [out |-> <<>>, raised |-> "NameError", value |-> PyNone,
          looked_up |-> {n \in code.names : Resolvable(n, globals)}]
    ELSE [out |-> code.prints, raised |-> code.raises, value |-> code.value,
          looked_up |-> code.names]

CodeNames == {"convert", "print", "__import__", "gemma"}
CodePrints == {<<>>, <<NL>>, <<"425.0", NL>>}
CodeRaises == {"none", "SyntaxError", "ValueError", "SystemExit"}
CodeValues == {PyNone, PyFloat("425.0")}

\* Code strings: text that is not an expression has no value, text that
\* does not compile has no behaviour, and only print writes to stdout.
Codes ==
    {c \in [form : {"expression", "statements", "invalid"},
            names : SUBSET CodeNames,
            prints : CodePrints,
            raises : CodeRaises,
            value : CodeValues] :
        /\ c.form # "expression" => c.value = PyNone
        /\ c.form = "invalid" => c = NoCode
        /\ c.prints # <<>> => "print" \in c.names}

InitCapture ==
    /\ code_string \in Codes
    /\ globals_dict = LocalVars
    /\ output = <<>>
    /\ result = UNSET
    /\ tool_result = UNSET
    /\ exc = "none"
    /\ executions = 0
    /\ resolved = {}
    /\ cpc = "eval"
    /\ SeqIdle
    /\ ToolIdle
    /\ FunccallIdle
    /\ LoopIdle
    /\ FnIdle

\* `result = eval(code_string, globals_dict, locals_dict)` inside
\* redirect_stdout: text that is not an expression raises SyntaxError
\* before anything runs; a SyntaxError, raised by the compiler or by the
\* running expression, goes to the inner handler; any other Exception goes
\* to the outer handler; anything else leaves the function.
CaptureEval ==
    /\ cpc = "eval"
    /\ IF code_string.form # "expression"
       THEN /\ cpc' = "exec"
            /\ UNCHANGED <<output, result, tool_result, exc, executions, resolved>>
       ELSE LET r == RunCode(code_string, globals_dict) IN
            /\ executions' = executions + 1
            /\ output' = output \o r.out
            /\ resolved' = resolved \cup r.looked_up
            /\ IF r.raised = "none"
               THEN /\ result' = r.value
                    /\ cpc' = "finish"
                    /\ UNCHANGED <<tool_result, exc>>
               ELSE IF r.raised = "SyntaxError"
               THEN /\ cpc' = "exec"
                    /\ UNCHANGED <<result, tool_result, exc>>
               ELSE IF IsException(r.raised)
               THEN /\ tool_result' = ErrorString(r.raised)
                    /\ exc' = r.raised
                    /\ cpc' = "returned"
                    /\ UNCHANGED result
               ELSE /\ exc' = r.raised
                    /\ cpc' = "raised"
                    /\ UNCHANGED <<result, tool_result>>
    /\ UNCHANGED <<code_string, globals_dict, seqVars, fnVars, toolVars, funccallVars,
                 loopVars>>

\* `except SyntaxError: exec(code_string, globals_dict, locals_dict);
\* result = None`: an Exception raised here, a SyntaxError of the compiler
\* included, goes to the outer handler.
CaptureExec ==
    /\ cpc = "exec"
    /\ IF code_string.form = "invalid"
       THEN /\ tool_result' = ErrorString("SyntaxError")
            /\ exc' = "SyntaxError"
            /\ cpc' = "returned"
            /\ UNCHANGED <<output, result, executions, resolved>>
       ELSE LET r == RunCode(code_string, globals_dict) IN
            /\ executions' = executions + 1
            /\ output' = output \o r.out
            /\ resolved' = resolved \cup r.looked_up
            /\ IF r.raised = "none"
               THEN /\ result' = PyNone
                    /\ cpc' = "finish"
                    /\ UNCHANGED <<tool_result, exc>>
               ELSE IF IsException(r.raised)
               THEN /\ tool_result' = ErrorString(r.raised)
                    /\ exc' = r.raised
                    /\ cpc' = "returned"
                    /\ UNCHANGED result
               ELSE /\ exc' = r.raised
                    /\ cpc' = "raised"
                    /\ UNCHANGED <<result, tool_result>>
    /\ UNCHANGED <<code_string, globals_dict, seqVars, fnVars, toolVars, funccallVars,
                 loopVars>>

\* `stdout_output = output.getvalue(); if stdout_output.strip(): return
\* stdout_output; return result`
CaptureFinish ==
    /\ cpc = "finish"
    /\ tool_result' = IF Strip(output) # <<>> THEN PyStr(output) ELSE result
    /\ cpc' = "returned"
    /\ UNCHANGED <<code_string, globals_dict, output, result, exc, executions,
                   resolved, seqVars, fnVars, toolVars, funccallVars,
                 loopVars>>

NextCapture ==
    \/ CaptureEval
    \/ CaptureExec
    \/ CaptureFinish

SpecCapture == InitCapture /\ [][NextCapture]_vars


\* C12: capture_code_output, when execution raises nothing, returns the
\* captured standard-output text if any output was produced; otherwise the
\* value of the expression; otherwise None (for statements that print
\* nothing).
C12_StdoutIfAnyElseValue ==
    (cpc = "returned" /\ exc = "none") =>
        tool_result = IF output # <<>> THEN PyStr(output)
                      ELSE IF code_string.form = "expression" THEN code_string.value
                      ELSE PyNone

\* C13 as stated: capture_code_output never propagates an exception raised
\* while evaluating or executing the code; it returns the error string.
C13_NeverPropagates ==
    /\ cpc # "raised"
    /\ (cpc = "returned" /\ exc # "none") => tool_result = ErrorString(exc)

\* C13: an exception derived from Exception that the code raises, on the
\* expression path or on the statement-fallback path, is never propagated:
\* the function returns the string "Error during code execution: " followed
\* by the exception.  An exception that derives from BaseException only
\* (SystemExit, KeyboardInterrupt) is propagated to the caller.
C13_ExceptionsReturnedExitsPropagate ==
    /\ cpc = "raised" => exc \in ExitClasses
    /\ (cpc = "returned" /\ exc # "none") =>
        /\ exc \in ExceptionClasses
        /\ tool_result = PyStr(<<"Error during code execution: ", exc>>)
    /\ (cpc \in {"returned", "raised"} /\ code_string.form # "invalid"
            /\ code_string.names \subseteq {"convert", "print", "__import__"}) =>
        /\ code_string.raises \in ExceptionClasses =>
            (cpc = "returned" /\ exc = code_string.raises)
        /\ code_string.raises \in ExitClasses =>
            (cpc = "raised" /\ exc = code_string.raises)

C13_Witness ==
    /\ cpc = "returned"
    /\ code_string.form = "statements"
    /\ code_string.raises = "ValueError"
    /\ executions = 1
    /\ tool_result = PyStr(<<"Error during code execution: ", "ValueError">>)

\* C14 as stated: no name other than the approved callables (only convert)
\* can be resolved by the executed code.
C14_OnlyApprovedResolved == resolved \subseteq {"convert"}

\* C14: the executed code resolves the approved callables (only convert)
\* and the names of Python's builtins (print, __import__, ...), which eval
\* and exec add to the namespace; looking up any other name raises
\* NameError, which is returned as the error string.
C14_OnlyApprovedAndBuiltinsResolved ==
    /\ resolved \subseteq {"convert", "print", "__import__"}
    /\ (cpc \in {"returned", "raised"} /\ code_string.form # "invalid"
            /\ "gemma" \in code_string.names) =>
        /\ cpc = "returned"
        /\ exc = "NameError"
        /\ tool_result = PyStr(<<"Error during code execution: ", "NameError">>)
        /\ output = <<>>

C14_Witness ==
    /\ cpc = "returned"
    /\ "gemma" \in code_string.names
    /\ "__import__" \in resolved
    /\ exc = "NameError"

\* ------------------------------------------------------------------------
\* try_parse_funccall
\* ------------------------------------------------------------------------
MaxCalls == 2

\* The invocations of one conversation.
Invocations == {1, 2}

\* The keys of the `tools` dict.
Tools == {"convert_currency", "find_flights", "book_flight"}

\* What a call object of the payload holds under "name" ("missing": no
\* such key) and under "arguments":
\*   missing      no such key;
\*   ok           a dict with the tool's parameters, of the types it uses;
\*   wrong_shape  not a dict, or a dict with other keys than the parameters;
\*   wrong_type   the parameters, the first one a string instead of a number;
\*   huge         the parameters, the first one an integer beyond the range
\*                of float.
CallNames == {"missing", "unknown_tool", "convert_currency", "book_flight"}
CallArguments == {"missing", "ok", "wrong_shape", "wrong_type", "huge"}

\* An item of the decoded array that is not a dict.
NotADict == [is_dict |-> FALSE, name |-> "missing", arguments |-> "missing",
             id |-> "absent"]

Items ==
    {NotADict} \cup [is_dict : {TRUE}, name : CallNames,
                     arguments : CallArguments, id : {"absent"}]

SeqsUpTo(S, n) == UNION {[1..k -> S] : k \in 0..n}

\* Responses: no [TOOL_CALLS] token; or the token followed by text that is
\* not JSON ("invalid"), by a JSON value that is not an array ("scalar"),
\* or by an array.
Responses ==
    {NoResponse}
        \cup {[marker |-> TRUE, kind |-> k, items |-> <<>>] : k \in {"invalid", "scalar"}}
        \cup {[marker |-> TRUE, kind |-> "list", items |-> q] :
                q \in SeqsUpTo(Items, MaxCalls)}

\* random.choices(string.ascii_letters + string.digits, k=9): any string of
\* the alphabet may be drawn, whatever was drawn before.
IdSpace == {"id_a", "id_b"}

\* `call["id"] = "".join(random.choices(...))`
AssignIdKeep(call, id) == call

AssignId(call, id) == [call EXCEPT !.id = id]

\* The exception that tools[name](**arguments) raises, "none" if none:
\* call["arguments"] raises KeyError when the key is missing; binding the
\* parameters raises TypeError when the arguments do not fit them;
\* convert_currency multiplies the amount by a float, which raises TypeError
\* for a string and OverflowError for an integer beyond the range of float;
\* find_flights and book_flight do not compute on their arguments.
ToolRaises(name, arguments) ==
    IF arguments = "missing" THEN "KeyError"
    ELSE IF arguments = "wrong_shape" THEN "TypeError"
    ELSE IF name = "convert_currency" /\ arguments = "wrong_type" THEN "TypeError"
    ELSE IF name = "convert_currency" /\ arguments = "huge" THEN "OverflowError"
    ELSE "none"

\* Whether the body of the tool runs.
ToolInvoked(name, arguments) == arguments \notin {"missing", "wrong_shape"}

\* The value the tool returns.
NoContent == [tool |-> "none", arguments |-> "none"]
ToolContent(name, arguments) == [tool |-> name, arguments |-> arguments]

\* Entries of the returned list: token sequences.
Entry(kind, content, call_id, resp) ==
    [kind |-> kind, content |-> content, call_id |-> call_id, response |-> resp]

\* [tokenizer.token_to_id("[TOOL_RESULTS]")]
ToolResultsOpen == Entry("[TOOL_RESULTS]", NoContent, "none", NoResponse)

\* [tokenizer.token_to_id("[/TOOL_RESULTS]")]
ToolResultsClose == Entry("[/TOOL_RESULTS]", NoContent, "none", NoResponse)

\* tokenizer(json.dumps({"content": ..., "call_id": ...}))
Encoded(content, call_id) == Entry("json", content, call_id, NoResponse)

\* `[response]`
ResponseEntry(resp) == Entry("response", NoContent, "none", resp)

\* The three res.append calls of one known-tool call.
PrependResult(r, content, call_id) ==
    <<ToolResultsOpen, Encoded(content, call_id), ToolResultsClose>> \o r

AppendResult(r, content, call_id) ==
    r \o <<ToolResultsOpen, Encoded(content, call_id), ToolResultsClose>>

\* `except (json.JSONDecodeError, KeyError, TypeError, ValueError)`
IsCaughtNoKeyError(e) == e \in {"JSONDecodeError", "TypeError", "ValueError"}

IsCaught(e) == e \in {"JSONDecodeError", "KeyError", "TypeError", "ValueError"}

\* `for call in tool_calls:` from call i on.  acc holds the list built so
\* far, the indices of the calls whose tool ran, the number of ids drawn
\* and the exception that ended the loop.
RECURSIVE ProcessCalls(_, _, _, _)
ProcessCalls(tool_calls, ids, i, acc) ==
    IF i > Len(tool_calls) THEN acc
    ELSE LET call == AssignId(tool_calls[i], ids[i])
             drew == [acc EXCEPT !.drawn = i]
         IN IF call.name = "missing"
            THEN [drew EXCEPT !.raised = "KeyError"]
            ELSE IF call.name \notin Tools
            THEN ProcessCalls(tool_calls, ids, i + 1, drew)
            ELSE LET ran == IF ToolInvoked(call.name, call.arguments)
                            THEN [drew EXCEPT !.invoked = Append(@, i)]
                            ELSE drew
                 IN IF ToolRaises(call.name, call.arguments) # "none"
                    THEN [ran EXCEPT !.raised = ToolRaises(call.name, call.arguments)]
                    ELSE ProcessCalls(tool_calls, ids, i + 1,
                            [ran EXCEPT !.res = AppendResult(@,
                                ToolContent(call.name, call.arguments), call.id)])

\* The body of the try block.
TryBlock(resp, ids) ==
    LET start == [res |-> <<>>, invoked |-> <<>>, drawn |-> 0, raised |-> "none",
                  returned_response |-> FALSE]
    IN IF resp.kind = "invalid"
       THEN [start EXCEPT !.raised = "JSONDecodeError"]
       ELSE IF resp.kind # "list" \/ \E i \in 1..Len(resp.items) : ~resp.items[i].is_dict
       THEN [start EXCEPT !.res = <<ResponseEntry(resp)>>, !.returned_response = TRUE]
       ELSE ProcessCalls(resp.items, ids, 1, start)

\* try_parse_funccall(response), the ids being those random.choices draws.
\* `caught` is the exception the handler caught, `raised` the one that
\* leaves the function.
TryParseFunccall(resp, ids) ==
    IF ~resp.marker
    THEN [res |-> <<ResponseEntry(resp)>>, invoked |-> <<>>, drawn |-> 0,
          caught |-> "none", raised |-> "none"]
    ELSE LET b == TryBlock(resp, ids) IN
         IF b.raised = "none"
         THEN [res |-> b.res, invoked |-> b.invoked, drawn |-> b.drawn,
               caught |-> "none", raised |-> "none"]
         ELSE IF IsCaught(b.raised)
         THEN [res |-> <<ResponseEntry(resp)>>, invoked |-> b.invoked,
               drawn |-> b.drawn, caught |-> b.raised, raised |-> "none"]
         ELSE [res |-> <<>>, invoked |-> b.invoked, drawn |-> b.drawn,
               caught |-> "none", raised |-> b.raised]

InitFunccall ==
    /\ response \in Responses
    /\ res = <<>>
    /\ call_ids = <<>>
    /\ invoked = <<>>
    /\ generated = <<>>
    /\ invocations = 1
    /\ fexc = "none"
    /\ fpc = "call"
    /\ SeqIdle
    /\ ToolIdle
    /\ CaptureIdle
    /\ LoopIdle
    /\ FnIdle

\* One invocation of try_parse_funccall.
TryParse ==
    /\ fpc = "call"
    /\ \E ids \in [1..Len(response.items) -> IdSpace] :
        LET r == TryParseFunccall(response, ids) IN
        /\ res' = r.res
        /\ call_ids' = SubSeq(ids, 1, r.drawn)
        /\ invoked' = r.invoked
        /\ generated' = generated \o SubSeq(ids, 1, r.drawn)
        /\ fexc' = IF r.raised # "none" THEN r.raised ELSE r.caught
        /\ fpc' = IF r.raised # "none" THEN "raised" ELSE "returned"
    /\ UNCHANGED <<response, invocations, seqVars, fnVars, toolVars, captureVars,
                 loopVars>>

\* `messages.extend(try_parse_funccall(...))`: the caller consumes the
\* returned list.
ExtendMessages ==
    /\ fpc = "returned"
    /\ invocations + 1 \in Invocations
    /\ response' = NoResponse
    /\ res' = <<>>
    /\ call_ids' = <<>>
    /\ invoked' = <<>>
    /\ fexc' = "none"
    /\ fpc' = "idle"
    /\ UNCHANGED <<generated, invocations, seqVars, fnVars, toolVars, captureVars,
                 loopVars>>

\* The caller passes the next response of the conversation.
NextResponse ==
    /\ fpc = "idle"
    /\ response' \in Responses
    /\ invocations' = invocations + 1
    /\ fpc' = "call"
    /\ UNCHANGED <<res, call_ids, invoked, generated, fexc, seqVars, fnVars, toolVars,
                   captureVars, loopVars>>

NextFunccall ==
    \/ TryParse
    \/ ExtendMessages
    \/ NextResponse

SpecFunccall == InitFunccall /\ [][NextFunccall]_vars


\* Indices of the calls that name a known tool, and the rank of such a call
\* among them.
KnownIndices(items) ==
    {i \in 1..Len(items) :
        items[i].name \in {"convert_currency", "find_flights", "book_flight"}}

Rank(items, i) == Cardinality({j \in KnownIndices(items) : j <= i})

\* The payload is an array of call objects that each hold a name and
\* arguments fitting the named tool.
WellFormedCalls(resp) ==
    /\ resp.marker
    /\ resp.kind = "list"
    /\ \A i \in 1..Len(resp.items) :
        /\ resp.items[i].is_dict
        /\ resp.items[i].name # "missing"
        /\ resp.items[i].arguments = "ok"

\* C15: for an array of well-formed call objects try_parse_funccall returns
\* exactly one result block ([TOOL_RESULTS], the encoded content and
\* call_id, [/TOOL_RESULTS]) per call that names a known tool, in the order
\* of the calls, and nothing for a call naming an unknown tool; an array of
\* unknown-tool calls only yields the empty list.
C15_OneBlockPerKnownCall ==
    (fpc = "returned" /\ WellFormedCalls(response)) =>
        LET items == response.items
            K == KnownIndices(items)
        IN /\ Len(res) = 3 * Cardinality(K)
           /\ \A i \in K :
                LET k == Rank(items, i) IN
                /\ res[3 * k - 2].kind = "[TOOL_RESULTS]"
                /\ res[3 * k - 1].kind = "json"
                /\ res[3 * k - 1].content = [tool |-> items[i].name, arguments |-> "ok"]
                /\ res[3 * k - 1].call_id = call_ids[i]
                /\ res[3 * k].kind = "[/TOOL_RESULTS]"
                /\ invoked[k] = i
           /\ Len(invoked) = Cardinality(K)
           /\ K = {} => res = <<>>

C15_Witness ==
    /\ fpc = "returned"
    /\ WellFormedCalls(response)
    /\ Len(response.items) = 2
    /\ response.items[1].name = "convert_currency"
    /\ response.items[2].name = "book_flight"
    /\ Len(res) = 6
    /\ res[2].content.tool = "convert_currency"
    /\ res[5].content.tool = "book_flight"

\* The returned list holds result blocks (it is not [response]).
HoldsBlocks == fpc = "returned" /\ response.marker /\ fexc = "none"
                /\ response.kind = "list"
                /\ \A i \in 1..Len(response.items) : response.items[i].is_dict

\* Ids drawn before this invocation drew the id of call i.
DrawnBefore(i) ==
    {generated[p] : p \in 1..(Len(generated) - Len(call_ids) + i - 1)}

\* C16 as stated: the call id in a result block is distinct from every id
\* generated before, for other calls of the same array and in earlier
\* turns.
C16_IdDistinctFromPrior ==
    HoldsBlocks =>
        \A i \in KnownIndices(response.items) :
            res[3 * Rank(response.items, i) - 1].call_id \notin DrawnBefore(i)

\* C16: the call id in a result block is the id drawn at random for that
\* call during this invocation, replacing any id of the payload; every call
\* reached draws one id, and nothing compares it with the ids drawn before.
C16_IdIsTheOneDrawn ==
    HoldsBlocks =>
        /\ Len(call_ids) = Len(response.items)
        /\ Len(generated) >= Len(call_ids)
        /\ SubSeq(generated, Len(generated) - Len(call_ids) + 1, Len(generated)) = call_ids
        /\ \A i \in KnownIndices(response.items) :
            /\ res[3 * Rank(response.items, i) - 1].call_id = call_ids[i]
            /\ call_ids[i] \in {"id_a", "id_b"}

C16_Witness ==
    /\ HoldsBlocks
    /\ invocations = 2
    /\ Len(response.items) = 1
    /\ Len(res) = 3
    /\ Len(generated) = 2
    /\ res[2].call_id = generated[1]

\* The payload classes the claim lists as malformed.
Malformed(resp) ==
    /\ resp.marker
    /\ \/ resp.kind # "list"
       \/ \E i \in 1..Len(resp.items) :
            \/ ~resp.items[i].is_dict
            \/ resp.items[i].name = "missing"
            \/ resp.items[i].arguments \in {"missing", "wrong_shape", "wrong_type"}

Stops(items, i) ==
    \/ items[i].name = "missing"
    \/ /\ items[i].name \in {"convert_currency", "find_flights", "book_flight"}
       /\ \/ items[i].arguments \in {"missing", "wrong_shape"}
          \/ /\ items[i].name = "convert_currency"
             /\ items[i].arguments \in {"wrong_type", "huge"}

FirstStop(items) ==
    SetMin({i \in 1..Len(items) : Stops(items, i)})

max_turns == 5
max_iterations == 10

\* capture_code_output as a function of the code and the namespace: the
\* eval attempt, ...
EvalPhase(code, globals) ==
    IF code.form # "expression"
    THEN [next |-> "exec", out |-> <<>>, result |-> UNSET, exc |-> "none",
          runs |-> 0, looked |-> {}]
    ELSE LET r == RunCode(code, globals) IN
         [next |-> IF r.raised = "none" THEN "finish"
                   ELSE IF r.raised = "SyntaxError" THEN "exec"
                   ELSE IF IsException(r.raised) THEN "error"
                   ELSE "raised",
          out |-> r.out,
          result |-> IF r.raised = "none" THEN r.value ELSE UNSET,
          exc |-> IF r.raised \in {"none", "SyntaxError"} THEN "none" ELSE r.raised,
          runs |-> 1,
          looked |-> r.looked_up]

\* ... the exec fallback after a SyntaxError, ...
ExecPhase(code, globals, e) ==
    IF code.form = "invalid"
    THEN [e EXCEPT !.next = "error", !.exc = "SyntaxError"]
    ELSE LET r == RunCode(code, globals) IN
         [next |-> IF r.raised = "none" THEN "finish"
                   ELSE IF IsException(r.raised) THEN "error"
                   ELSE "raised",
          out |-> e.out \o r.out,
          result |-> IF r.raised = "none" THEN PyNone ELSE e.result,
          exc |-> r.raised,
          runs |-> e.runs + 1,
          looked |-> e.looked \cup r.looked_up]

\* ... and the choice of the value to return.
CaptureCodeOutput(code, globals) ==
    LET e == EvalPhase(code, globals)
        x == IF e.next = "exec" THEN ExecPhase(code, globals, e) ELSE e
    IN  [output |-> x.out, result |-> x.result, exc |-> x.exc,
         executions |-> x.runs, resolved |-> x.looked,
         tool_result |-> IF x.next = "finish"
                         THEN (IF Strip(x.out) # <<>> THEN PyStr(x.out) ELSE x.result)
                         ELSE IF x.next = "error" THEN ErrorString(x.exc)
                         ELSE UNSET,
         cpc |-> IF x.next = "raised" THEN "raised" ELSE "returned"]

\* What Python makes of the payloads the generated texts carry.
Compile(tokens) ==
    IF tokens = CALL_PAYLOAD
    THEN [form |-> "expression", names |-> {"print", "convert"},
          prints |-> <<"425.0", NL>>, raises |-> "none", value |-> PyNone]
    ELSE IF tokens = <<"print(", "f(-1,2)", ")">>
    THEN [form |-> "expression", names |-> {"print", "convert"},
          prints |-> <<>>, raises |-> "ValueError", value |-> PyNone]
    ELSE IF tokens = <<"exit()">>
    THEN [form |-> "expression", names |-> {}, prints |-> <<>>,
          raises |-> "SystemExit", value |-> PyNone]
    ELSE IF tokens = <<"gemma">>
    THEN [form |-> "expression", names |-> {"gemma"}, prints |-> <<>>,
          raises |-> "none", value |-> PyNone]
    ELSE NoCode

\* Texts gemma.generate may return: an answer without a block; blocks
\* holding the call, a call with a negative amount (convert raises
\* ValueError), text that does not compile, exit(), a name that is not in
\* the namespace, or only a blank; and a block that is never closed.
GemmaResponses ==
    {<<"x">>,
     <<FENCE, TAG, NL>> \o CALL_PAYLOAD \o <<NL, FENCE>>,
     <<FENCE, TAG, NL, "print(", "f(-1,2)", ")", NL, FENCE>>,
     <<FENCE, TAG, NL, "print(", NL, FENCE>>,
     <<FENCE, TAG, NL, "exit()", NL, FENCE>>,
     <<FENCE, TAG, NL, "gemma", NL, FENCE>>,
     <<FENCE, TAG, NL, SP, NL, FENCE>>,
     <<FENCE, TAG, NL, "x">>}

\* `if tool_code:`
Truthy(code) == ~code.is_none /\ code.value # <<>>

HistoryEntry(kind, text, value) == [kind |-> kind, text |-> text, value |-> value]

Call(name, arguments) ==
    [is_dict |-> TRUE, name |-> name, arguments |-> arguments, id |-> "absent"]

CallsResponse(items) == [marker |-> TRUE, kind |-> "list", items |-> items]

\* Responses mistral.generate may return: an answer without [TOOL_CALLS];
\* calls of find_flights and book_flight; a book_flight call without
\* arguments; an array with a non-object before a book_flight call; a
\* convert_currency call with an amount beyond the range of float.
MistralResponses ==
    {NoResponse,
     CallsResponse(<<Call("find_flights", "ok")>>),
     CallsResponse(<<Call("book_flight", "ok")>>),
     CallsResponse(<<Call("book_flight", "missing")>>),
     CallsResponse(<<NotADict, Call("book_flight", "ok")>>),
     CallsResponse(<<Call("convert_currency", "huge")>>),
     CallsResponse(<<>>)}

\* `messages` before the loop: BOS, the tool definitions, the instruction.
InitialMessages == <<Entry("prompt", NoContent, "none", NoResponse)>>

\* The scan for a book_flight call in the loop body: raw_decode, then
\* `isinstance(tool_calls, list)`, then `isinstance(call, dict) and
\* call.get("name") == "book_flight"` for some call.
BookingSeen(resp) ==
    /\ resp.marker
    /\ resp.kind = "list"
    /\ \E i \in 1..Len(resp.items) :
        resp.items[i].is_dict /\ resp.items[i].name = "book_flight"

\* `while not flight_booked and iteration_count < max_iterations`
LoopGuardInclusive(booked, count) == ~booked /\ count <= max_iterations

LoopGuard(booked, count) == ~booked /\ count < max_iterations

\* Where the Gemma loop goes after a response without a tool call.
AfterNoToolCallContinue == "head"

AfterNoToolCall == "done"

InitLoops ==
    /\ loop \in {"gemma", "mistral"}
    /\ lpc = "head"
    /\ turn = 0
    /\ conversation_history = <<>>
    /\ messages = IF loop = "mistral" THEN InitialMessages ELSE <<>>
    /\ flight_booked = FALSE
    /\ iteration_count = 0
    /\ generations = 0
    /\ SeqIdle
    /\ ToolIdle
    /\ CaptureIdle
    /\ FunccallIdle
    /\ FnIdle

\* `for turn in range(max_turns)` ... `response = gemma.generate(...)`
GemmaGenerate ==
    /\ loop = "gemma"
    /\ lpc = "head"
    /\ turn < max_turns
    /\ response_text' \in GemmaResponses
    /\ generations' = generations + 1
    /\ lpc' = "handle"
    /\ UNCHANGED <<loop, tool_code, tpc, turn, conversation_history, messages,
                   flight_booked, iteration_count, seqVars, fnVars, captureVars,
                   funccallVars>>

\* range(max_turns) is exhausted.
GemmaExhausted ==
    /\ loop = "gemma"
    /\ lpc = "head"
    /\ turn >= max_turns
    /\ lpc' = "done"
    /\ UNCHANGED <<loop, turn, conversation_history, messages, flight_booked,
                   iteration_count, generations, seqVars, fnVars, toolVars, captureVars,
                   funccallVars>>

\* The rest of the loop body: extract the tool call; run it and append the
\* code, its output and the model turn to the history, or append the
\* response and break.
GemmaHandle ==
    /\ loop = "gemma"
    /\ lpc = "handle"
    /\ LET code == extract_tool_call(response_text) IN
       /\ tool_code' = code
       /\ tpc' = "returned"
       /\ IF Truthy(code)
          THEN LET r == CaptureCodeOutput(Compile(code.value), LocalVars) IN
               /\ code_string' = Compile(code.value)
               /\ globals_dict' = LocalVars
               /\ output' = r.output
               /\ result' = r.result
               /\ tool_result' = r.tool_result
               /\ exc' = r.exc
               /\ executions' = r.executions
               /\ resolved' = r.resolved
               /\ cpc' = r.cpc
               /\ IF r.cpc = "returned"
                  THEN /\ conversation_history' = conversation_history \o
                            <<HistoryEntry("tool_code", code.value, UNSET),
                              HistoryEntry("tool_output", <<>>, r.tool_result),
                              HistoryEntry("model_turn", <<>>, UNSET)>>
                       /\ turn' = turn + 1
                       /\ lpc' = "head"
                  ELSE /\ lpc' = IF IsException(r.exc) THEN "done" ELSE "raised"
                       /\ UNCHANGED <<conversation_history, turn>>
          ELSE /\ conversation_history' = Append(conversation_history,
                        HistoryEntry("response", response_text, UNSET))
               /\ lpc' = AfterNoToolCall
               /\ turn' = IF AfterNoToolCall = "done" THEN turn ELSE turn + 1
               /\ UNCHANGED captureVars
    /\ UNCHANGED <<loop, response_text, messages, flight_booked, iteration_count,
                   generations, seqVars, fnVars, funccallVars>>

\* `while ...: iteration_count += 1; res = mistral.generate(...)`
MistralGenerate ==
    /\ loop = "mistral"
    /\ lpc = "head"
    /\ LoopGuard(flight_booked, iteration_count)
    /\ iteration_count' = iteration_count + 1
    /\ response' \in MistralResponses
    /\ generations' = generations + 1
    /\ lpc' = "handle"
    /\ UNCHANGED <<loop, turn, conversation_history, messages, flight_booked,
                   res, call_ids, invoked, generated, invocations, fexc, fpc,
                   seqVars, fnVars, toolVars, captureVars>>

\* The loop condition is false.
MistralExit ==
    /\ loop = "mistral"
    /\ lpc = "head"
    /\ ~LoopGuard(flight_booked, iteration_count)
    /\ lpc' = "done"
    /\ UNCHANGED <<loop, turn, conversation_history, messages, flight_booked,
                   iteration_count, generations, seqVars, fnVars, toolVars, captureVars,
                   funccallVars>>

\* The rest of the loop body: the scan for a book_flight call, then
\* `messages.extend(try_parse_funccall(res["token_ids"][0]))`.
MistralHandle ==
    /\ loop = "mistral"
    /\ lpc = "handle"
    /\ flight_booked' = (flight_booked \/ BookingSeen(response))
    /\ \E ids \in [1..Len(response.items) -> IdSpace] :
        LET r == TryParseFunccall(response, ids) IN
        /\ res' = r.res
        /\ call_ids' = SubSeq(ids, 1, r.drawn)
        /\ invoked' = r.invoked
        /\ generated' = generated \o SubSeq(ids, 1, r.drawn)
        /\ fexc' = IF r.raised # "none" THEN r.raised ELSE r.caught
        /\ fpc' = IF r.raised # "none" THEN "raised" ELSE "returned"
        /\ invocations' = invocations + 1
        /\ messages' = IF r.raised # "none" THEN messages ELSE messages \o r.res
        /\ lpc' = IF r.raised # "none" THEN "raised" ELSE "head"
    /\ UNCHANGED <<loop, turn, conversation_history, iteration_count, generations,
                   response, seqVars, fnVars, toolVars, captureVars>>

NextLoops ==
    \/ GemmaGenerate
    \/ GemmaExhausted
    \/ GemmaHandle
    \/ MistralGenerate
    \/ MistralExit
    \/ MistralHandle

SpecLoops == InitLoops /\ [][NextLoops]_vars


\* The last response lacked a tool call: the Gemma loop appended the
\* response itself to the history; the Mistral loop appended a response
\* without [TOOL_CALLS] to messages.
NoToolCallSeen ==
    \/ /\ loop = "gemma"
       /\ \E e \in 1..Len(conversation_history) :
            conversation_history[e].kind = "response"
    \/ /\ loop = "mistral"
       /\ \E e \in 1..Len(messages) :
            messages[e].kind = "response" /\ ~messages[e].response.marker

\* C18 as stated: in both loops no generation is requested after a
\* response that contains no tool call.
C18_NoGenerationAfterNoToolCall ==
    lpc = "handle" => ~NoToolCallSeen

\* C18: in automated_tool_calling_example no generation is requested
\* after a response without a tool call: the response is appended and the
\* loop ends.  The Mistral loop does not end on such a response: it appends
\* the response and generates again, and ends only when a book_flight call
\* was seen, when iteration_count reaches max_iterations, or by an
\* exception.
C18_OnlyGemmaStopsOnNoToolCall ==
    /\ loop = "gemma" =>
        /\ lpc = "handle" => ~NoToolCallSeen
        /\ NoToolCallSeen =>
            /\ lpc = "done"
            /\ conversation_history[Len(conversation_history)].kind = "response"
        /\ (lpc = "done" /\ ~NoToolCallSeen) => turn = 5
    /\ loop = "mistral" =>
        /\ (lpc = "done") => (flight_booked \/ iteration_count = 10)
        /\ (lpc = "head" /\ NoToolCallSeen /\ ~flight_booked /\ iteration_count < 10) =>
            ENABLED MistralGenerate

C18_Witness ==
    /\ loop = "mistral"
    /\ lpc = "handle"
    /\ NoToolCallSeen
    /\ generations = 3

\* C19: automated_tool_calling_example requests at most max_turns (5)
\* generations and the Mistral loop at most max_iterations (10), and
\* iteration_count never exceeds max_iterations.
C19_BoundedGenerations ==
    /\ loop = "gemma" => (generations <= 5 /\ turn <= 5 /\ generations <= turn + 1)
    /\ loop = "mistral" =>
        /\ generations <= 10
        /\ iteration_count <= 10
        /\ generations = iteration_count

C19_Witness ==
    /\ loop = "mistral"
    /\ lpc = "done"
    /\ ~flight_booked
    /\ iteration_count = 10
    /\ generations = 10

\* C20: flight_booked is true only when, in the iteration that set it,
\* try_parse_funccall invoked book_flight and the result block was
\* appended to messages.
C20_BookedOnlyIfInvoked ==
    (loop = "mistral" /\ flight_booked) =>
        /\ \E k \in 1..Len(invoked) : response.items[invoked[k]].name = "book_flight"
        /\ \E e \in 1..Len(res) :
            res[e].kind = "json" /\ res[e].content.tool = "book_flight"
        /\ Len(messages) >= Len(res)
        /\ SubSeq(messages, Len(messages) - Len(res) + 1, Len(messages)) = res

\* C21: in automated_tool_calling_example a tool execution that fails
\* (the tool raises, or the extracted code is invalid) does not abort the
\* loop and is not retried: the error string is appended to the history
\* as that turn's tool_output and the loop proceeds to the next turn; the
\* loop stops only at the max-turn bound or on a response without a tool
\* call.
C21_FailureReportedInline ==
    loop = "gemma" =>
        /\ (lpc = "head" /\ turn > 0 /\ exc \in ExceptionClasses) =>
            LET n == Len(conversation_history) IN
            /\ cpc = "returned"
            /\ n = 3 * turn
            /\ generations = turn
            /\ conversation_history[n - 2] =
                    [kind |-> "tool_code", text |-> tool_code.value, value |-> UNSET]
            /\ conversation_history[n - 1] =
                    [kind |-> "tool_output", text |-> <<>>,
                     value |-> PyStr(<<"Error during code execution: ", exc>>)]
            /\ conversation_history[n].kind = "model_turn"
            /\ turn < 5 => ENABLED GemmaGenerate
        /\ lpc = "done" =>
            \/ turn = 5
            \/ conversation_history[Len(conversation_history)].kind = "response"
        /\ lpc = "raised" => exc \in ExitClasses

C21_Witness ==
    /\ loop = "gemma"
    /\ lpc = "handle"
    /\ turn = 2
    /\ conversation_history[2].value = PyStr(<<"Error during code execution: ", "ValueError">>)
    /\ conversation_history[5].value = PyStr(<<"Error during code execution: ", "SyntaxError">>)

\* C22: in the Mistral loop, after a turn in which the model called a
\* known tool, messages holds the model's tool-call turn immediately
\* followed by the corresponding tool output.
C22_ToolCallTurnPrecedesOutput ==
    (loop = "mistral" /\ lpc = "head" /\ fpc = "returned"
        /\ \E e \in 1..Len(res) : res[e].kind = "json") =>
        LET n == Len(messages) - Len(res) IN
        /\ n >= 1
        /\ messages[n].kind = "response"
        /\ messages[n].response = response
        /\ SubSeq(messages, n + 1, Len(messages)) = res

\* C23: a tool call is consumed once: capture_code_output runs the code
\* at most once per call, and try_parse_funccall invokes the callable
\* exactly once for each call that names a known tool.
C23_ConsumedOnce ==
    /\ executions <= 1
    /\ (fpc = "returned" /\ response.marker /\ response.kind = "list"
            /\ \A i \in 1..Len(response.items) : response.items[i].is_dict) =>
        \A i \in KnownIndices(response.items) :
            Cardinality({k \in 1..Len(invoked) : invoked[k] = i}) = 1

\* ------------------------------------------------------------------------
\* SequentialRetrievalModel.compute_loss
\* ------------------------------------------------------------------------
EmbeddingDimension == 2
BatchSizes == {1, 2, 3}
Components == {-1, 1}
Embeddings == [1..EmbeddingDimension -> Components]

\* keras.ops.eye(n, m)
EyeOnes(n, m) == [i \in 1..n |-> [j \in 1..m |-> 1]]

Eye(n, m) == [i \in 1..n |-> [j \in 1..m |-> IF i = j THEN 1 ELSE 0]]

\* keras.ops.transpose of a matrix with the given number of columns.
Transpose(a, cols) == [k \in 1..cols |-> [j \in 1..Len(a) |-> a[j][k]]]

RECURSIVE SumProducts(_, _, _, _)
SumProducts(a, b, i, j) ==
    LET inner == Len(b) IN
    IF inner = 0 THEN 0
    ELSE a[i][inner] * b[inner][j]
            + SumProducts(a, SubSeq(b, 1, inner - 1), i, j)

\* keras.ops.matmul(a, b) for b with the given number of columns.
Matmul(a, b, cols) ==
    [i \in 1..Len(a) |-> [j \in 1..cols |-> SumProducts(a, b, i, j)]]

\* self.candidate_model(candidate_id): the embedding lookup.
CandidateEmbeddings(model, ids) == [j \in 1..Len(ids) |-> model[ids[j]]]

InitLoss ==
    /\ candidate_model \in [Movies -> Embeddings]
    /\ \E b \in BatchSizes :
        /\ candidate_id \in [1..b -> Movies]
        /\ query_embeddings \in [1..b -> Embeddings]
    /\ labels = <<>>
    /\ scores = <<>>
    /\ pre_messages = <<>>
    /\ sequence_length = 0
    /\ token_ids = <<>>
    /\ padding_mask = <<>>
    /\ amount = NoAmount
    /\ currency = NoCurrency
    /\ new_currency = NoCurrency
    /\ converted = NoOutcome
    /\ captured = UNSET
    /\ fn_pc = "compute_loss"
    /\ SeqIdle
    /\ ToolIdle
    /\ CaptureIdle
    /\ FunccallIdle
    /\ LoopIdle

\* compute_loss up to the call of self.loss_fn(labels, scores, ...).
ComputeLoss ==
    /\ fn_pc = "compute_loss"
    /\ LET candidate_embeddings == CandidateEmbeddings(candidate_model, candidate_id)
           num_queries == Len(query_embeddings)
           num_candidates == Len(candidate_embeddings)
       IN  /\ labels' = Eye(num_queries, num_candidates)
           /\ scores' = Matmul(query_embeddings,
                               Transpose(candidate_embeddings, EmbeddingDimension),
                               num_candidates)
    /\ fn_pc' = "loss_fn"
    /\ UNCHANGED <<candidate_model, candidate_id, query_embeddings, pre_messages,
                   sequence_length, token_ids, padding_mask, amount, currency,
                   new_currency, converted, captured, seqVars, toolVars,
                   captureVars, funccallVars, loopVars>>

NextLoss == ComputeLoss

SpecLoss == InitLoss /\ [][NextLoss]_vars

\* C24: for a batch of B examples labels[i][j] is 1 exactly when i = j and
\* 0 otherwise, so that the label of every other example of the batch is a
\* negative for example i, and scores[i][j] is the dot product of query
\* embedding i with the embedding of the label of example j.
C24_IdentityLabelsAndDotScores ==
    fn_pc = "loss_fn" =>
        LET B == Len(candidate_id) IN
        /\ Len(labels) = B
        /\ Len(scores) = B
        /\ \A i \in 1..B :
            /\ Len(labels[i]) = B
            /\ Len(scores[i]) = B
            /\ \A j \in 1..B :
                /\ labels[i][j] = (IF i = j THEN 1 ELSE 0)
                /\ scores[i][j] =
                      query_embeddings[i][1] * candidate_model[candidate_id[j]][1]
                    + query_embeddings[i][2] * candidate_model[candidate_id[j]][2]

C24_Witness ==
    /\ fn_pc = "loss_fn"
    /\ Len(candidate_id) = 3
    /\ candidate_id[1] = candidate_id[2]
    /\ candidate_id[3] # candidate_id[1]
    /\ labels[1][2] = 0
    /\ scores[1][2] = 2
    /\ scores[1][3] = -2

\* ------------------------------------------------------------------------
\* preprocess
\* ------------------------------------------------------------------------
Tokens == {1, 2}
TokenSequences == SeqsUpTo(Tokens, 2)
MessageLists == {m \in SeqsUpTo(TokenSequences, 2) : m # <<>>}
SequenceLengths == 0..5

\* np.concatenate(messages)
Concatenate(msgs) == Flatten(msgs)

\* `if concatd.shape[1] > sequence_length: concatd = concatd[:, :sequence_length]`
TruncateTail(concatd, length) ==
    IF Len(concatd) > length
    THEN SubSeq(concatd, Len(concatd) - length + 1, Len(concatd))
    ELSE concatd

Truncate(concatd, length) ==
    IF Len(concatd) > length THEN SubSeq(concatd, 1, length) ELSE concatd

\* np.pad(concatd, ((0, 0), (0, padding_needed))): zeros on the right.
PadRight(concatd, padding_needed) == concatd \o [i \in 1..padding_needed |-> 0]

\* (np.arange(sequence_length) < concatd.shape[1]).astype(int)
ArangeLess(length, width) == [i \in 1..length |-> IF i - 1 < width THEN 1 ELSE 0]

InitPreprocess ==
    /\ pre_messages \in MessageLists
    /\ sequence_length \in SequenceLengths
    /\ token_ids = <<>>
    /\ padding_mask = <<>>
    /\ candidate_model = <<>>
    /\ candidate_id = <<>>
    /\ query_embeddings = <<>>
    /\ labels = <<>>
    /\ scores = <<>>
    /\ amount = NoAmount
    /\ currency = NoCurrency
    /\ new_currency = NoCurrency
    /\ converted = NoOutcome
    /\ captured = UNSET
    /\ fn_pc = "preprocess"
    /\ SeqIdle
    /\ ToolIdle
    /\ CaptureIdle
    /\ FunccallIdle
    /\ LoopIdle

Preprocess ==
    /\ fn_pc = "preprocess"
    /\ LET concatd == Truncate(Concatenate(pre_messages), sequence_length)
           padding_needed == Max(0, sequence_length - Len(concatd))
       IN  /\ token_ids' = PadRight(concatd, padding_needed)
           /\ padding_mask' = ArangeLess(sequence_length, Len(concatd))
    /\ fn_pc' = "preprocessed"
    /\ UNCHANGED <<pre_messages, sequence_length, candidate_model, candidate_id,
                   query_embeddings, labels, scores, amount, currency,
                   new_currency, converted, captured, seqVars, toolVars,
                   captureVars, funccallVars, loopVars>>

NextPreprocess == Preprocess

SpecPreprocess == InitPreprocess /\ [][NextPreprocess]_vars

\* All tokens of the conversation, in order.
AllTokens == Flatten(pre_messages)

\* C25: token_ids and padding_mask have length exactly sequence_length;
\* token_ids holds the first min(total, sequence_length) tokens of the
\* concatenation followed by zeros, padding_mask is 1 on exactly those
\* positions and 0 after; of a conversation longer than sequence_length the
\* most recent tokens are the ones dropped.
C25_FirstTokensThenZeros ==
    fn_pc = "preprocessed" =>
        LET total == Len(AllTokens)
            kept == IF total < sequence_length THEN total ELSE sequence_length
        IN  /\ Len(token_ids) = sequence_length
            /\ Len(padding_mask) = sequence_length
            /\ \A i \in 1..sequence_length :
                /\ i <= kept => (token_ids[i] = AllTokens[i] /\ padding_mask[i] = 1)
                /\ i > kept => (token_ids[i] = 0 /\ padding_mask[i] = 0)

C25_Witness ==
    /\ fn_pc = "preprocessed"
    /\ Len(pre_messages) = 2
    /\ Len(AllTokens) = 4
    /\ sequence_length = 3
    /\ AllTokens[1] = 1
    /\ AllTokens[4] = 2
    /\ token_ids[1] = 1
    /\ padding_mask = <<1, 1, 1>>

\* ------------------------------------------------------------------------
\* convert
\* ------------------------------------------------------------------------
\* USD_TO_EUR_RATE = 0.85, as a fraction.
USD_TO_EUR_RATE == [num |-> 85, den |-> 100]

Amounts == {[is_num |-> TRUE, n |-> k] : k \in {-1, 0, 100}} \cup {NoAmount}

Currencies ==
    {NoCurrency} \cup [is_str : {TRUE}, code : {"USD", "EUR", "GBP"},
                       lower : BOOLEAN, padded : BOOLEAN]

\* `currency.upper().strip()`
NormalizeNoStrip(c) == [c EXCEPT !.lower = FALSE]

Normalize(c) == [c EXCEPT !.lower = FALSE, !.padded = FALSE]

\* `currency == "USD"` and the like: equality with the bare upper-case code.
IsCode(c, code) == c = [is_str |-> TRUE, code |-> code, lower |-> FALSE, padded |-> FALSE]

Raises(e) == [raises |-> e, num |-> 0, den |-> 1]
Returns(num, den) == [raises |-> "none", num |-> num, den |-> den]

\* convert(amount, currency, new_currency).  `amount < 0` raises TypeError
\* for an amount that is not a number.
Convert(a, c, n) ==
    IF ~a.is_num THEN Raises("TypeError")
    ELSE IF a.n < 0 THEN Raises("ValueError")
    ELSE IF ~c.is_str \/ ~n.is_str THEN Raises("ValueError")
    ELSE IF IsCode(Normalize(c), "USD") /\ IsCode(Normalize(n), "EUR")
    THEN Returns(a.n * USD_TO_EUR_RATE.num, USD_TO_EUR_RATE.den)
    ELSE IF IsCode(Normalize(c), "EUR") /\ IsCode(Normalize(n), "USD")
    THEN Returns(a.n * USD_TO_EUR_RATE.den, USD_TO_EUR_RATE.num)
    ELSE Raises("NotImplementedError")

\* The code "convert(amount, currency, new_currency)" as Python runs it.
ConvertCall(outcome) ==
    [form |-> "expression", names |-> {"convert"}, prints |-> <<>>,
     raises |-> outcome.raises, value |-> PyFloat("converted")]

InitConvert ==
    /\ amount \in Amounts
    /\ currency \in Currencies
    /\ new_currency \in Currencies
    /\ converted = NoOutcome
    /\ captured = UNSET
    /\ pre_messages = <<>>
    /\ sequence_length = 0
    /\ token_ids = <<>>
    /\ padding_mask = <<>>
    /\ candidate_model = <<>>
    /\ candidate_id = <<>>
    /\ query_embeddings = <<>>
    /\ labels = <<>>
    /\ scores = <<>>
    /\ fn_pc = "convert"
    /\ SeqIdle
    /\ ToolIdle
    /\ CaptureIdle
    /\ FunccallIdle
    /\ LoopIdle

\* The call of convert, run through capture_code_output with
\* local_vars = {"convert": convert}.
ConvertCaptured ==
    /\ fn_pc = "convert"
    /\ converted' = Convert(amount, currency, new_currency)
    /\ captured' = CaptureCodeOutput(
                        ConvertCall(Convert(amount, currency, new_currency)),
                        LocalVars).tool_result
    /\ fn_pc' = "converted"
    /\ UNCHANGED <<amount, currency, new_currency, pre_messages, sequence_length,
                   token_ids, padding_mask, candidate_model, candidate_id,
                   query_embeddings, labels, scores, seqVars, toolVars,
                   captureVars, funccallVars, loopVars>>

NextConvert == ConvertCaptured

SpecConvert == InitConvert /\ [][NextConvert]_vars

\* The currency pair is one of the two supported ones, whatever the case
\* and the surrounding blanks.
SupportedPair ==
    /\ currency.is_str
    /\ new_currency.is_str
    /\ <<currency.code, new_currency.code>> \in {<<"USD", "EUR">>, <<"EUR", "USD">>}

\* C26: convert raises ValueError for a negative amount and for a currency
\* code that is not a string, and NotImplementedError for every pair other
\* than USD->EUR and EUR->USD (after upper-casing and stripping); it returns
\* no value for such input, and run through capture_code_output each of
\* them yields the error string.
C26_InvalidInputRaises ==
    (fn_pc = "converted" /\ amount.is_num) =>
        /\ amount.n < 0 => converted.raises = "ValueError"
        /\ (amount.n >= 0 /\ (~currency.is_str \/ ~new_currency.is_str)) =>
            converted.raises = "ValueError"
        /\ (amount.n >= 0 /\ currency.is_str /\ new_currency.is_str /\ ~SupportedPair) =>
            converted.raises = "NotImplementedError"
        /\ (amount.n >= 0 /\ SupportedPair) =>
            /\ converted.raises = "none"
            /\ converted.num * 100 * 85 =
                    IF currency.code = "USD" THEN amount.n * 85 * 85 * converted.den
                    ELSE amount.n * 100 * 100 * converted.den
            /\ captured = [type |-> "float", val |-> <<"converted">>]
        /\ converted.raises # "none" =>
            captured = PyStr(<<"Error during code execution: ", converted.raises>>)

C26_Witness ==
    /\ fn_pc = "converted"
    /\ amount.n = 100
    /\ currency.code = "USD" /\ currency.lower /\ currency.padded
    /\ new_currency.is_str /\ new_currency.code = "GBP"
    /\ converted.raises = "NotImplementedError"
    /\ captured = PyStr(<<"Error during code execution: ", "NotImplementedError">>)

\* ------------------------------------------------------------------------
\* extract_tool_call on texts with several blocks
\* ------------------------------------------------------------------------
\* Pieces of generated text: a block holding the call, a block holding
\* another call, a block with text on its tag line, a block with a blank
\* payload, a word and a newline.
Pieces ==
    {<<FENCE, TAG, NL>> \o CALL_PAYLOAD \o <<NL, FENCE>>,
     <<FENCE, TAG, NL, "f(1,2)", NL, FENCE>>,
     <<FENCE, TAG, "x", NL, "x", NL, FENCE>>,
     <<FENCE, TAG, NL, SP, NL, FENCE>>,
     <<"x">>,
     <<NL>>}

PieceCounts == 0..3

BlockTexts == {Flatten(ss) : ss \in UNION {[1..n -> Pieces] : n \in PieceCounts}}

InitExtractBlocks ==
    /\ response_text \in BlockTexts
    /\ tool_code = NONE
    /\ tpc = "call"
    /\ SeqIdle
    /\ RestIdle

SpecExtractBlocks == InitExtractBlocks /\ [][NextExtract]_vars

\* Positions where a tool_code block opens, and positions of a newline
\* that is followed by a fence.
BlockOpenings(text) ==
    {a \in 1..(Len(text) - 1) : text[a] = "FENCE" /\ text[a + 1] = "tool_code"}

ClosingNewlines(text) ==
    {e \in 1..(Len(text) - 1) : text[e] = "\n" /\ text[e + 1] = "FENCE"}

\* The payload of the block opening at a: the text after the tag up to
\* the first closing fence on a later line, stripped.
FirstNonBlank(s) == SetMin({i \in 1..Len(s) : s[i] \notin {"\n", " "}})
LastNonBlank(s) == SetMax({i \in 1..Len(s) : s[i] \notin {"\n", " "}})
Stripped(s) ==
    IF \A i \in 1..Len(s) : s[i] \in {"\n", " "} THEN <<>>
    ELSE SubSeq(s, FirstNonBlank(s), LastNonBlank(s))

PayloadOf(text, a) ==
    LET closes == {e \in ClosingNewlines(text) : e > a + 1}
    IN  Stripped(SubSeq(text, a + 2, SetMin(closes) - 1))

SeveralBlocks(text) == Cardinality(BlockOpenings(text)) >= 2

\* C27 as stated: of several tool_code blocks the extractor returns the
\* stripped payload of the first one.
C27_FirstBlockPayload ==
    (tpc = "returned" /\ SeveralBlocks(response_text)) =>
        tool_code = Some(PayloadOf(response_text, SetMin(BlockOpenings(response_text))))

\* The block opening at a has nothing but whitespace on its tag line and
\* a closing fence on a later line; its payload is not blank.
TagLineBlank(text, a) ==
    \E n \in (a + 2)..Len(text) :
        /\ text[n] = "\n"
        /\ \A j \in (a + 2)..n : text[j] \in {"\n", " "}
        /\ \E e \in ClosingNewlines(text) : e > n

PayloadNotBlank(text, a) ==
    \E m \in (a + 2)..Len(text) :
        /\ text[m] \notin {"\n", " ", "FENCE"}
        /\ \A j \in (a + 2)..(m - 1) : text[j] \in {"\n", " "}

\* C27: of several tool_code blocks the extractor returns the stripped
\* payload of the first block whose tag line is blank, provided that
\* payload is not blank; blocks before it with text on the tag line are
\* passed over, and blocks after it are never returned.  When the payload
\* of that block is blank the result is empty or runs on to a later
\* closing fence.
C27_FirstMatchingBlockPayload ==
    (tpc = "returned" /\ SeveralBlocks(response_text)) =>
        LET starts == {a \in BlockOpenings(response_text) : TagLineBlank(response_text, a)}
        IN  IF starts = {} THEN tool_code.is_none
            ELSE LET a == SetMin(starts) IN
                 /\ ~tool_code.is_none
                 /\ PayloadNotBlank(response_text, a) =>
                        tool_code.value = PayloadOf(response_text, a)
                 /\ ~PayloadNotBlank(response_text, a) =>
                        \/ tool_code.value = <<>>
                        \/ tool_code.value[1] = "FENCE"

C27_Witness ==
    /\ tpc = "returned"
    /\ Len(response_text) = 20
    /\ response_text[3] = "x"
    /\ response_text[8] = "FENCE"
    /\ response_text[11] = "f(1,2)"
    /\ tool_code.value = <<"f(1,2)">>

\* ---------------------------------------------------------------------------
\* C28: when try_parse_funccall returns the one-element list holding the
\* response itself, no tool callable was invoked during that call: a known,
\* well-formed call followed by a malformed one does not run the first tool
\* and then discard its result.
C28_ResponseReturnedMeansNothingInvoked ==
    (fpc = "returned" /\ response.marker /\ res = <<ResponseEntry(response)>>) =>
        invoked = <<>>

\* ---------------------------------------------------------------------------
\* C29: every iteration of the Mistral loop appends at least one token
\* sequence to messages and leaves the existing ones as they are, so the
\* input of each generation strictly extends that of the previous one.
C29_EachIterationExtendsMessages ==
    [][(loop = "mistral" /\ lpc = "handle" /\ lpc' = "head") =>
            /\ Len(messages') > Len(messages)
            /\ SubSeq(messages', 1, Len(messages)) = messages]_vars

\* ---------------------------------------------------------------------------
\* A step of generate_examples_from_user_sequences leaves every sequence as
\* it was, without a sentinel, and a fresh context starts with the
\* interactions that precede the label.
InputKept ==
    pc \in {"users", "loop", "pad"} =>
          /\ sequences' = sequences
          /\ \A u \in Users : \A k \in 1..Len(sequences'[u]) :
                sequences'[u][k].movie_id # 0
          /\ pc' = "pad" =>
                \A k \in 1..Min(label_idx', MAX_CONTEXT_LENGTH) :
                    /\ k <= Len(context')
                    /\ context'[k] =
                         sequences[user_order[user_idx]]
                                  [Max(0, label_idx' - MAX_CONTEXT_LENGTH) + k]

\* C30: generate_examples_from_user_sequences does not modify its input:
\* no step of it changes any user's sequence, no sentinel entry ever shows
\* up in a sequence, and the real part of each context (what the slice took)
\* is the run of interactions of the sequence that ends before the label,
\* whatever padding earlier examples received.
C30_InputSequencesUntouched == [][InputKept]_vars

\* The second example of a user is being built after the first one was
\* padded: its context is full, ends with a sentinel, and the sequence holds
\* no sentinel.
C30_Witness ==
    /\ pc = "pad"
    /\ label_idx = 2
    /\ Len(train_examples) = 1
    /\ Len(context) = MAX_CONTEXT_LENGTH
    /\ Len(context) = 3
    /\ context[3].movie_id = 0
    /\ context[2].movie_id # 0
    /\ \A k \in 1..Len(sequences[user_order[user_idx]]) :
          sequences[user_order[user_idx]][k].movie_id # 0
====
